---- MODULE Spec2Model ----
(***************************************************************************)
(* Model of YunChat.  The AI service layer (src/src/App.tsx): the three     *)
(* provider services OpenAIService, AnthropicService and GoogleService,    *)
(* their chat() method (HTTP request, error handling, streamed decoding),  *)
(* validateKey() and AIServiceFactory.  The chat view                      *)
(* (src/src/components/MainArea.tsx): the options it builds per provider,  *)
(* its messages list, the loading and saving of chats in the store and     *)
(* the sending of messages.                                                *)
(*                                                                         *)
(* Specifications: Spec (chat() calls one after the other), SpecStream     *)
(* (one streamed call over generated bodies and chunkings), SpecWire (the  *)
(* factory, validateKey and the requests put on the wire), SpecPair (two   *)
(* streamed calls in flight together), SpecUI and SpecUIFair (MainArea),   *)
(* SpecSend (MainArea in one chat, any API key), SpecBody (the messages of  *)
(* a request body).                                                        *)
(*                                                                         *)
(* Text is modelled as a sequence of units.  A unit is either one          *)
(* character / byte ("a", "b", the two bytes "L" "T" of the two-byte       *)
(* character "é", the replacement character "?", the newline "NL", the     *)
(* space "SP") or a fixed run of characters that the code only ever looks  *)
(* at as a whole (the prefix `data: `, the marker `[DONE]`, the opening    *)
(* and closing part of a provider's JSON event around its text).  A        *)
(* network chunk may be cut between any two units.                         *)
(***************************************************************************)
EXTENDS Integers, Sequences, FiniteSets, TLC

\* ------------------------------------------------------------------ bounds
MaxLines == 2      \* lines of a line-framed response / elements of a Google array
MaxReads == 2      \* reader.read() calls that deliver data in one chat() call
MaxCalls == 2      \* chat() calls made one after the other
MaxFetches == 2    \* requests made by validateKey() and by the chat() calls of MainArea
MaxMessages == 4   \* entries of MainArea's messages list
MaxIds == 4        \* message ids handed out between two starts of the app
MaxDeltas == 1     \* onStream calls MainArea receives for one message
MaxLoads == 1      \* loadChatData runs waiting for the store at the same time
MaxStarts == 2     \* starts of the app
MaxTurns == 2      \* entries of the message sequence handed to chat()

\* ------------------------------------------------------------------- units
NL    == "NL"      \* "\n"
SP    == "SP"      \* " "
DATA  == "DATA"    \* `data: `  (6 characters)
DONE  == "DONE"    \* `[DONE]`
OOPEN == "O<"      \* `{"choices":[{"delta":{"content":"`
OCLOSE == "O>"     \* `"}}]}`
OROLE == "OROLE"   \* `{"choices":[{"delta":{"role":"assistant"}}]}`
MOPEN == "M<"      \* `{"choices":[{"message":{"content":"`
MCLOSE == "M>"     \* `"}}]}`
AOPEN == "A<"      \* `{"content":[{"text":"`
ACLOSE == "A>"     \* `"}]}`
GOPEN == "G<"      \* `{"candidates":[{"content":{"parts":[{"text":"`
GCLOSE == "G>"     \* `"}]}}]}`
EMPTYOBJ == "{}"   \* `{}`
NULL  == "null"    \* `null`
LBR   == "["
RBR   == "]"
COMMA == ","
LEAD  == "L"       \* first byte of the two-byte character é
TRAIL == "T"       \* second byte of the two-byte character é
EACUTE == "e'"     \* the decoded character é
REPL  == "?"       \* U+FFFD, what TextDecoder writes for a broken byte sequence
EMSG  == "E_MSG"   \* `{"error":{"message":"quota","code":"429"}}`
ECODE == "E_CODE"  \* `{"error":{"code":"429"}}`
ESTR  == "E_STR"   \* `{"error":"denied"}`
HTML  == "HTML"    \* `<html>Bad Gateway</html>`

\* Characters that may stand inside a JSON string of the model.
TextChars == {"a", "b", EACUTE, REPL, DONE}

Providers == {"openai", "anthropic", "google"}
LineFramed == {"openai", "anthropic"}

\* JavaScript's undefined, as `${x}` prints it.
Undefined == "undefined"

\* ------------------------------------------------- sequences of units
RECURSIVE Concat(_)
\* The concatenation of a sequence of texts (String += over the sequence).
Concat(ss) == IF ss = << >> THEN << >> ELSE Head(ss) \o Concat(Tail(ss))

Range(s) == {s[i] : i \in 1..Len(s)}

IsSpace(u) == u \in {SP, NL}

RECURSIVE TrimLeft(_)
TrimLeft(s) == IF s # << >> /\ IsSpace(Head(s)) THEN TrimLeft(Tail(s)) ELSE s

RECURSIVE TrimRight(_)
TrimRight(s) ==
    IF s # << >> /\ IsSpace(s[Len(s)]) THEN TrimRight(SubSeq(s, 1, Len(s) - 1)) ELSE s

\* String.prototype.trim
Trim(s) == TrimRight(TrimLeft(s))

RECURSIVE SplitAcc(_, _, _)
SplitAcc(s, sep, cur) ==
    IF s = << >> THEN <<cur>>
    ELSE IF Head(s) = sep THEN <<cur>> \o SplitAcc(Tail(s), sep, << >>)
    ELSE SplitAcc(Tail(s), sep, Append(cur, Head(s)))

\* String.prototype.split(sep): "a\nb\n" gives <<"a", "b", "">>.
Split(s, sep) == SplitAcc(s, sep, << >>)

\* ------------------------------------------------------------ TextDecoder
RECURSIVE Decode(_)
\* decoder.decode(value) of a fresh call: no state is kept, so a lead byte
\* without its trail byte, and a trail byte without its lead byte, each
\* become U+FFFD.
Decode(bytes) ==
    IF bytes = << >> THEN << >>
    ELSE IF Head(bytes) = LEAD
         THEN IF Len(bytes) >= 2 /\ bytes[2] = TRAIL
              THEN <<EACUTE>> \o Decode(Tail(Tail(bytes)))
              ELSE <<REPL>> \o Decode(Tail(bytes))
    ELSE IF Head(bytes) = TRAIL THEN <<REPL>> \o Decode(Tail(bytes))
    ELSE <<Head(bytes)>> \o Decode(Tail(bytes))

\* decoder.decode(value, {stream: true}): an incomplete sequence at the end
\* of the chunk is held back and completed by the next chunk.
DecodeStream(held, bytes) ==
    LET all == held \o bytes
        cut == all # << >> /\ all[Len(all)] = LEAD
    IN  [out  |-> Decode(IF cut THEN SubSeq(all, 1, Len(all) - 1) ELSE all),
         held |-> IF cut THEN <<LEAD>> ELSE << >>]

\* ------------------------------------------------------------- JSON.parse
\* The values JSON.parse can return for the texts of the model.
JNull == [t |-> "null"]
JObject == [t |-> "object", shape |-> "empty"]
\* An event object of a provider's shape; has = FALSE when the text field
\* is absent from it.
JEvent(shape, has, text) == [t |-> "object", shape |-> shape, has |-> has, text |-> text]
\* An error payload: error is "object" or "string", message and code are
\* Undefined when absent.
JError(error, message, code) ==
    [t |-> "object", shape |-> "error", error |-> error, message |-> message, code |-> code]
JArray(elems) == [t |-> "array", elems |-> elems]

Failed == [ok |-> FALSE]
Parsed(v) == [ok |-> TRUE, v |-> v]

\* `open` text... `close`, the text made of string characters only.
IsEvent(s, open, close) ==
    /\ Len(s) >= 2
    /\ s[1] = open
    /\ s[Len(s)] = close
    /\ \A i \in 2..(Len(s) - 1) : s[i] \in TextChars

EventText(s) == SubSeq(s, 2, Len(s) - 1)

RECURSIVE JSONParse(_)
\* JSON.parse(text): Failed stands for the SyntaxError it throws.
JSONParse(text) ==
    LET s == Trim(text)
    IN  IF s = <<NULL>> THEN Parsed(JNull)
        ELSE IF s = <<EMPTYOBJ>> THEN Parsed(JObject)
        ELSE IF s = <<OROLE>> THEN Parsed(JEvent("openai", FALSE, << >>))
        ELSE IF s = <<EMSG>> THEN Parsed(JError("object", "quota", "429"))
        ELSE IF s = <<ECODE>> THEN Parsed(JError("object", Undefined, "429"))
        ELSE IF s = <<ESTR>> THEN Parsed(JError("string", Undefined, Undefined))
        ELSE IF IsEvent(s, OOPEN, OCLOSE) THEN Parsed(JEvent("openai", TRUE, EventText(s)))
        ELSE IF IsEvent(s, MOPEN, MCLOSE) THEN Parsed(JEvent("openai_message", TRUE, EventText(s)))
        ELSE IF IsEvent(s, AOPEN, ACLOSE) THEN Parsed(JEvent("anthropic", TRUE, EventText(s)))
        ELSE IF IsEvent(s, GOPEN, GCLOSE) THEN Parsed(JEvent("google", TRUE, EventText(s)))
        ELSE IF Len(s) >= 2 /\ s[1] = LBR /\ s[Len(s)] = RBR
             THEN LET inner == SubSeq(s, 2, Len(s) - 1)
                      parts == Split(inner, COMMA)
                      vals  == [i \in 1..Len(parts) |-> JSONParse(parts[i])]
                  IN  IF Trim(inner) = << >> THEN Parsed(JArray(<< >>))
                      ELSE IF \A i \in 1..Len(parts) : vals[i].ok
                           THEN Parsed(JArray([i \in 1..Len(parts) |-> vals[i].v]))
                           ELSE Failed
        ELSE Failed

\* a || b on strings and undefined
OrElse(a, b) == IF a = Undefined \/ a = "" THEN b ELSE a

\* ------------------------------------------- extraction of the text field
\* The outcome of evaluating an extraction expression: it threw a
\* TypeError, it gave undefined (the path is absent), or it gave a text.
Threw == [threw |-> TRUE, has |-> FALSE, text |-> << >>]
GaveUndefined == [threw |-> FALSE, has |-> FALSE, text |-> << >>]
Gave(text) == [threw |-> FALSE, has |-> TRUE, text |-> text]

\* data.choices[0]?.delta?.content
OpenAIDeltaContent(data) ==
    IF data.t = "object" /\ data.shape = "openai"
    THEN (IF data.has THEN Gave(data.text) ELSE GaveUndefined)
    ELSE Threw    \* null.choices, or undefined[0]

\* data.choices[0]?.message?.content
OpenAIMessageContent(data) ==
    IF data.t = "object" /\ data.shape = "openai_message" THEN Gave(data.text)
    ELSE IF data.t = "object" /\ data.shape = "openai" THEN GaveUndefined
    ELSE Threw

\* data.content?.[0]?.text
AnthropicText(data) ==
    IF data.t = "null" THEN Threw
    ELSE IF data.t = "object" /\ data.shape = "anthropic" THEN Gave(data.text)
    ELSE GaveUndefined

\* data.content[0]?.text
AnthropicTextStrict(data) ==
    IF data.t = "object" /\ data.shape = "anthropic" THEN Gave(data.text)
    ELSE Threw    \* null.content, or undefined[0]

\* data.candidates?.[0]?.content?.parts?.[0]?.text; for a non-null data also
\* data.candidates && data.candidates[0]?.content?.parts?.[0]?.text
GoogleText(data) ==
    IF data.t = "object" /\ data.shape = "google" THEN Gave(data.text)
    ELSE GaveUndefined

\* x || '' on the text an extraction gave
OrEmpty(got) == IF got.has THEN got.text ELSE << >>

\* ------------------------------------- the line-framed loop (OpenAI, Anthropic)
\* chunk.split('\n').filter(line => line.trim() !== '')
SSELines(chunk) == SelectSeq(Split(chunk, NL), LAMBDA line : Trim(line) # << >>)

\* ProcessLine with `if (content) onStream(content)`: an empty content is
\* not forwarded.
ProcessLineFiltered(p, line) ==
    IF line # << >> /\ Head(line) = DATA /\ DONE \notin Range(line)
    THEN LET parsed == JSONParse(Tail(line))
             got == IF p = "openai" THEN OpenAIDeltaContent(parsed.v)
                    ELSE AnthropicText(parsed.v)
         IN  IF ~parsed.ok \/ got.threw \/ OrEmpty(got) = << >> THEN << >>
             ELSE <<OrEmpty(got)>>
    ELSE << >>

\* The body of `for (const line of lines)`: the calls of onStream it makes
\* (none or one), each with its argument.
ProcessLine(p, line) ==
    IF line # << >> /\ Head(line) = DATA /\ DONE \notin Range(line)
    THEN LET parsed == JSONParse(Tail(line))
             got == IF p = "openai" THEN OpenAIDeltaContent(parsed.v)
                    ELSE AnthropicText(parsed.v)
         IN  IF ~parsed.ok \/ got.threw THEN << >>     \* caught and logged
             ELSE <<OrEmpty(got)>>
    ELSE << >>

RECURSIVE ProcessLinesUntilDone(_, _)
\* ProcessLines with a `break` at the first line that holds [DONE].
ProcessLinesUntilDone(p, lines) ==
    IF lines = << >> \/ DONE \in Range(Head(lines)) THEN << >>
    ELSE ProcessLine(p, Head(lines)) \o ProcessLinesUntilDone(p, Tail(lines))

RECURSIVE ProcessLines(_, _)
\* The for loop over the lines of one chunk: the arguments of its onStream
\* calls, in call order.
ProcessLines(p, lines) ==
    IF lines = << >> THEN << >>
    ELSE ProcessLine(p, Head(lines)) \o ProcessLines(p, Tail(lines))

\* One iteration of the while loop for a chunk `value`.
ProcessChunk(p, value) == ProcessLines(p, SSELines(Decode(value)))

\* Accumulate with `fullResponse = content`.
AccumulateAssign(full, content) == content

\* fullResponse += content
Accumulate(full, content) == full \o content

RECURSIVE AccumulateAll(_, _)
AccumulateAll(full, contents) ==
    IF contents = << >> THEN full
    ELSE AccumulateAll(Accumulate(full, Head(contents)), Tail(contents))

\* ------------------------------------------ the buffered strategy (Google)
RECURSIVE GoogleLoopUnfiltered(_)
\* GoogleLoop with `const content = ... || ''; onStream(content)`: the text
\* of every element is forwarded, the empty one too.
GoogleLoopUnfiltered(elems) ==
    IF elems = << >> THEN [emitted |-> << >>, threw |-> FALSE]
    ELSE IF Head(elems).t = "null" THEN [emitted |-> << >>, threw |-> TRUE]
    ELSE LET more == GoogleLoopUnfiltered(Tail(elems))
         IN  [emitted |-> <<OrEmpty(GoogleText(Head(elems)))>> \o more.emitted,
              threw |-> more.threw]

RECURSIVE GoogleLoop(_)
\* `for (const data of responseArray)`: the arguments of the onStream calls
\* made, in call order, and whether an iteration threw (null.candidates),
\* which ends the loop.
GoogleLoop(elems) ==
    IF elems = << >> THEN [emitted |-> << >>, threw |-> FALSE]
    ELSE IF Head(elems).t = "null" THEN [emitted |-> << >>, threw |-> TRUE]
    ELSE LET got  == GoogleText(Head(elems))
             here == IF got.has /\ got.text # << >> THEN <<got.text>> ELSE << >>
             more == GoogleLoop(Tail(elems))
         IN  [emitted |-> here \o more.emitted, threw |-> more.threw]

\* new Error("解析 Google API 响应失败")
ParseFailure == [type |-> "Error", prefix |-> "", detail |-> "failed to parse the Google API response"]

\* GoogleFinish without the throw of the non-array branch: a body that is
\* JSON but no array gives the empty text.
GoogleFinishLenient(buf) ==
    LET parsed == JSONParse(Trim(buf))
    IN  IF ~parsed.ok THEN [emitted |-> << >>, threw |-> TRUE]
        ELSE IF parsed.v.t # "array" THEN [emitted |-> << >>, threw |-> FALSE]
        ELSE GoogleLoop(parsed.v.elems)

\* What follows the read loop of GoogleService.chat: parse the buffer, call
\* onStream per element, return or throw.  Every throw inside the try block
\* (JSON.parse, the non-array case, an element that throws) is replaced by
\* the same parse-failure error.
GoogleFinish(buf) ==
    LET parsed == JSONParse(Trim(buf))
        loop   == GoogleLoop(parsed.v.elems)
    IN  IF ~parsed.ok \/ parsed.v.t # "array"
        THEN [emitted |-> << >>, threw |-> TRUE]
        ELSE loop

\* ------------------------------------------------- a response that is not ok
ApiPrefix(p) ==
    CASE p = "openai" -> "OpenAI API error: "
      [] p = "anthropic" -> "Anthropic API error: "
      [] p = "google" -> "Google API error: "

ApiError(p, detail) == [type |-> "Error", prefix |-> ApiPrefix(p), detail |-> detail]
SyntaxError == [type |-> "SyntaxError"]
TypeError == [type |-> "TypeError"]
NetworkError == [type |-> "NetworkError"]
NoError == [type |-> "none"]

\* errorData.error is truthy
HasError(data) == data.t = "object" /\ data.shape = "error"

\* The error thrown by `if (!response.ok) { ... }`.
HttpError(p, r) ==
    LET parsed == JSONParse(r.body)
        data   == parsed.v
    IN  IF ~parsed.ok THEN SyntaxError            \* response.json() rejects
        ELSE IF data.t = "null" THEN TypeError       \* null.error
        ELSE IF p = "openai"
             THEN IF HasError(data)
                  THEN ApiError(p, OrElse(data.message, data.code))
                  ELSE ApiError(p, r.statusText)
        ELSE \* errorData.error?.message || response.statusText
             IF HasError(data) THEN ApiError(p, OrElse(data.message, r.statusText))
             ELSE ApiError(p, r.statusText)

\* ------------------------------------------------ the non-streaming branch
\* `const data = await response.json(); return <path> || ''`
JsonResult(p, body) ==
    LET parsed == JSONParse(body)
        data   == parsed.v
        got    == CASE p = "openai" -> OpenAIMessageContent(data)
                    [] p = "anthropic" -> AnthropicTextStrict(data)
                    [] p = "google" -> IF data.t = "null" THEN Threw ELSE GoogleText(data)
    IN  IF ~parsed.ok THEN [ok |-> FALSE, error |-> SyntaxError, text |-> << >>]
        ELSE IF got.threw THEN [ok |-> FALSE, error |-> TypeError, text |-> << >>]
        ELSE [ok |-> TRUE, error |-> NoError, text |-> OrEmpty(got)]

\* ------------------------------------------------------------- the inputs
\* All sequences over S of length lo..hi.
SeqsOf(S, lo, hi) == UNION {[1..k -> S] : k \in lo..hi}

RECURSIVE Join(_, _)
\* parts joined by sep
Join(parts, sep) ==
    IF parts = << >> THEN << >>
    ELSE IF Len(parts) = 1 THEN Head(parts)
    ELSE Head(parts) \o <<sep>> \o Join(Tail(parts), sep)

Open(p) == IF p = "openai" THEN OOPEN ELSE AOPEN
Close(p) == IF p = "openai" THEN OCLOSE ELSE ACLOSE

\* The bytes of a `data: ` line whose event carries `text`.
DataLine(p, text) == <<DATA, Open(p)>> \o text \o <<Close(p)>>
DoneLine == <<DATA, DONE>>
\* An event without a text field: a role-only event for OpenAI, an event
\* object with no content for Anthropic.
NoTextLine(p) == IF p = "openai" THEN <<DATA, OROLE>> ELSE <<DATA, EMPTYOBJ>>
\* A data line cut short: its payload is no JSON.
MalformedLine(p) == <<DATA, Open(p), "a">>

\* The lines a line-framed response is made of.
LinePool(p) ==
    { DataLine(p, <<"a">>), DataLine(p, <<LEAD, TRAIL>>), DataLine(p, << >>),
      DataLine(p, <<DONE>>), NoTextLine(p), MalformedLine(p), DoneLine, << >> }

\* A response body: each line followed by a newline.
LinesBody(lines) == Concat([i \in 1..Len(lines) |-> lines[i] \o <<NL>>])

\* The responses of the testable properties: well-formed lines interleaved
\* with blank lines and ended by [DONE]; a malformed line between two
\* well-formed ones; the same with a text that mentions [DONE].
ListedBodies(p) ==
    { LinesBody(<<DataLine(p, <<"a">>), << >>, DataLine(p, <<LEAD, TRAIL>>), DoneLine>>),
      LinesBody(<<DataLine(p, <<"a">>), MalformedLine(p), DataLine(p, <<LEAD, TRAIL>>)>>),
      LinesBody(<<DataLine(p, <<"a">>), MalformedLine(p), DataLine(p, <<DONE>>)>>),
      LinesBody(<<DoneLine, << >>, DataLine(p, <<"a">>)>>) }

StreamBodies(p) ==
    {LinesBody(ls) : ls \in SeqsOf(LinePool(p), 1, MaxLines)} \cup ListedBodies(p)

GoogleElement(text) == <<GOPEN>> \o text \o <<GCLOSE>>

ElementPool ==
    { GoogleElement(<<"a">>), GoogleElement(<<LEAD, TRAIL>>), GoogleElement(<< >>),
      <<EMPTYOBJ>>, <<NULL>> }

ArrayBody(elems) == <<LBR>> \o Join(elems, COMMA) \o <<RBR>>

GoogleBodies ==
    {ArrayBody(es) : es \in SeqsOf(ElementPool, 0, MaxLines)}
    \cup {ArrayBody(<<GoogleElement(<<"a">>)>>) \o <<NL>>}     \* trailing newline
    \cup { << >>, <<EMPTYOBJ>>, <<NULL>>, <<LBR, GOPEN, "a">>,
           GoogleElement(<<"a">>), <<HTML>> }                  \* no array, or no JSON

OkResponse(body) == [ok |-> TRUE, statusText |-> "OK", body |-> body]

\* The streamed responses of a provider.
StreamResponses(p) ==
    {OkResponse(b) : b \in IF p = "google" THEN GoogleBodies ELSE StreamBodies(p)}

ErrorBodies == { <<EMSG>>, <<ECODE>>, <<ESTR>>, <<EMPTYOBJ>>, <<NULL>>, <<HTML>>, << >> }

ErrorResponses ==
    {[ok |-> FALSE, statusText |-> st, body |-> b] :
        st \in {"Bad Gateway", "Unauthorized"}, b \in ErrorBodies}

\* The bodies of a response to a request without a stream callback.
JsonBodies(p) ==
    { (CASE p = "openai" -> <<MOPEN, "a", "b", MCLOSE>>
         [] p = "anthropic" -> <<AOPEN, "a", "b", ACLOSE>>
         [] p = "google" -> <<GOPEN, "a", "b", GCLOSE>>),
      <<EMPTYOBJ>>, <<NULL>>, <<HTML>>,
      ArrayBody(<<GoogleElement(<<"a">>), GoogleElement(<<"b">>)>>) }

\* A few streamed bodies, for the runs that are about calls and not decoding.
BasicStreamBodies(p) ==
    IF p = "google"
    THEN { ArrayBody(<<GoogleElement(<<"a">>), GoogleElement(<<"b">>)>>),
           ArrayBody(<<GoogleElement(<<"a">>), <<NULL>>>>), <<HTML>> }
    ELSE { LinesBody(<<DataLine(p, <<"a">>), DataLine(p, <<"b">>), DoneLine>>),
           LinesBody(<<DataLine(p, <<"a">>), MalformedLine(p)>>) }

BasicResponses(p, s) ==
    ErrorResponses
    \cup {OkResponse(b) : b \in IF s THEN BasicStreamBodies(p) ELSE JsonBodies(p)}

\* --------------------------------------------------------------- the state
VARIABLES
    pc,            \* where the chat() call in progress stands
    provider,      \* the service the call is made on
    streaming,     \* onStream was supplied
    calls,         \* chat() calls started so far
    requests,      \* fetch() calls made so far
    resp,          \* the Response fetch resolved to
    rest,          \* the bytes of the body the reader has not delivered yet
    reads,         \* reader.read() calls that delivered a chunk
    held,          \* bytes the streaming TextDecoder holds back
    buffer,        \* GoogleService: the text accumulated so far
    fullResponse,  \* the local variable fullResponse
    deltas,        \* the arguments onStream was called with, in call order
    outcome,       \* "pending", "resolved" or "rejected"
    result,        \* the text the call resolved to
    error,         \* the error the call rejected with
    previous       \* the provider and streaming flag of the call before this one

\* The state of the factory, of the options adapter and of the requests put on
\* the wire (AIServiceFactory, the services' constructors, validateKey and the
\* request that chat() builds; MainArea's choice of options).
VARIABLES
    service,       \* the service object the factory returned last
    args,          \* the arguments of the last createService call
    factoryError,  \* the error the last createService call threw
    apiOptions,    \* MainArea: the options object built for the service
    request,       \* the last request handed to fetch()
    fetches,       \* fetch() calls made by the factory, validateKey and chat
    keyCheck,      \* the validateKey() call: its stage, the fetch outcome, its result
    aiConfig,      \* MainArea: the configuration the options were built from
    op             \* the operation that ran last

wireVars == <<service, args, factoryError, apiOptions, request, fetches, keyCheck,
              aiConfig, op>>

\* chat() calls in flight at the same time.
VARIABLES
    flight,        \* per call: its provider, position, unread bytes and locals
    heard          \* per call: the arguments its onStream callback was called with

pairVars == <<flight, heard>>

\* The state of MainArea and of the store behind it.
VARIABLES
    itemId,            \* the route parameter: the chat shown, undefined at "/"
    messages,          \* the messages state
    store,             \* store.bin: per chat id, the messages saved under it
    messageIdCounter,  \* messageIdCounter.current
    inputMessage,      \* the text in the input box
    isLoading,         \* the isLoading state
    loads,             \* the loadChatData runs waiting for store.get
    stream,            \* the chat() call MainArea waits for
    historyItems,      \* App: the history items, each with its id and its text
    starts,            \* how often the app was started
    apiKeyRead         \* the config.apiKey the last handleSendMessage run read

uiVars == <<itemId, messages, store, messageIdCounter, inputMessage, isLoading,
            loads, stream, historyItems, starts, apiKeyRead>>

\* The message sequence of the caller and what chat() makes of it.
VARIABLES
    conversation,      \* the caller's array of {role, content} messages
    wire               \* the last request body: the provider, the key and the list under it

bodyVars == <<conversation, wire>>

\* The variables of one chat() call.
chatVars == <<pc, provider, streaming, calls, requests, resp, rest, reads, held,
              buffer, fullResponse, deltas, outcome, result, error, previous>>

\* The variables outside one chat() call, outside the factory and the wire,
\* and outside the calls in flight.
outside == <<wireVars, pairVars, uiVars, bodyVars>>
outsideWire == <<chatVars, pairVars, uiVars, bodyVars>>
outsidePair == <<chatVars, wireVars, uiVars, bodyVars>>
outsideUI == <<chatVars, wireVars, pairVars, bodyVars>>
outsideBody == <<chatVars, wireVars, pairVars, uiVars>>

vars == <<pc, provider, streaming, calls, requests, resp, rest, reads, held,
          buffer, fullResponse, deltas, outcome, result, error, previous, outside>>

NoResponse == [ok |-> TRUE, statusText |-> "", body |-> << >>]

\* No service object: createService has not returned one.
NoService == [kind |-> "none", apiKey |-> "", modelName |-> "", baseUrl |-> ""]

\* No createService call yet.
NoArgs == [type |-> << >>, modelName |-> Undefined, baseUrl |-> Undefined]

\* `let apiOptions: any = {}`: an object without keys.
EmptyObject == [k \in {} |-> ""]

\* No request yet.
NoRequest == [kind |-> "none", method |-> "", url |-> << >>, auth |-> "", body |-> EmptyObject]

\* No validateKey() call yet.
NoKeyCheck == [stage |-> "none", rejected |-> FALSE, status |-> 0, threw |-> FALSE, value |-> FALSE]

\* MainArea: the initial value of aiConfig (numbers are written as strings).
DefaultAiConfig ==
    [temperature |-> "0.7", max_tokens |-> "1000", top_p |-> "1",
     frequency_penalty |-> "0", presence_penalty |-> "0"]

\* The two calls that may be in flight at the same time.
CallIds == {1, 2}

\* A call that was not made yet.
NoCall ==
    [pc |-> "none", provider |-> "none", rest |-> << >>, chunks |-> << >>,
     mixed |-> FALSE, held |-> << >>, buffer |-> << >>, fullResponse |-> << >>,
     outcome |-> "pending", result |-> << >>, error |-> NoError]

InitPair ==
    /\ flight = [i \in CallIds |-> NoCall]
    /\ heard = [i \in CallIds |-> << >>]

\* The chat ids uuidv4 hands out.
ChatIds == {"A", "B"}

\* No chat() call that MainArea waits for.
\* text is what the service has passed to onStream so far; switched tells
\* that the route changed while the call was in flight; outcome is how the
\* last call ended.
NoStream ==
    [active |-> FALSE, assistantId |-> <<"assistant", 0>>, count |-> 0,
     text |-> << >>, switched |-> FALSE, outcome |-> "none"]

\* The loadChatData run of the mount: no itemId, nothing saved under "default".
MountLoad == [itemId |-> Undefined, data |-> << >>]

InitUI ==
    /\ itemId = Undefined
    /\ messages = << >>
    /\ store = [x \in ChatIds |-> << >>]
    /\ messageIdCounter = 0
    /\ inputMessage = ""
    /\ isLoading = FALSE
    /\ loads = <<MountLoad>>
    /\ stream = NoStream
    /\ historyItems = {}
    /\ starts = 1
    /\ apiKeyRead = << >>

\* No request body yet.
NoWire == [n |-> 0, provider |-> "none", key |-> "", list |-> << >>]

InitBody ==
    /\ conversation = << >>
    /\ wire = NoWire

InitWire ==
    /\ service = NoService
    /\ args = NoArgs
    /\ factoryError = NoError
    /\ apiOptions = EmptyObject
    /\ request = NoRequest
    /\ fetches = 0
    /\ keyCheck = NoKeyCheck
    /\ aiConfig = DefaultAiConfig
    /\ op = "none"


Init ==
    /\ pc = "idle"
    /\ provider = "none"
    /\ streaming = FALSE
    /\ calls = 0
    /\ requests = 0
    /\ resp = NoResponse
    /\ rest = << >>
    /\ reads = 0
    /\ held = << >>
    /\ buffer = << >>
    /\ fullResponse = << >>
    /\ deltas = << >>
    /\ outcome = "pending"
    /\ result = << >>
    /\ error = NoError
    /\ previous = <<"none", FALSE>>
    /\ InitWire
    /\ InitPair
    /\ InitUI
    /\ InitBody

\* The call rejects with e (the catch block logs and rethrows).
Reject(e) ==
    /\ pc' = "done"
    /\ outcome' = "rejected"
    /\ error' = e
    /\ result' = << >>

\* The call resolves to text.
Resolve(text) ==
    /\ pc' = "done"
    /\ outcome' = "resolved"
    /\ result' = text
    /\ error' = NoError

\* Chat with a cache: a call with the inputs of the call before it makes no
\* request.
ChatCached(p, s) ==
    /\ pc \in {"idle", "done"}
    /\ calls < MaxCalls
    /\ pc' = "fetch"
    /\ provider' = p
    /\ streaming' = s
    /\ calls' = calls + 1
    /\ requests' = IF calls > 0 /\ p = provider /\ s = streaming THEN requests
                   ELSE requests + 1
    /\ resp' = NoResponse
    /\ rest' = << >>
    /\ reads' = 0
    /\ held' = << >>
    /\ buffer' = << >>
    /\ fullResponse' = << >>
    /\ deltas' = << >>
    /\ outcome' = "pending"
    /\ result' = << >>
    /\ error' = NoError
    /\ previous' = <<provider, streaming>>
    /\ UNCHANGED outside

\* chat(messages, options, onStream) is called on the service of provider p
\* (s: onStream is supplied) and runs up to `await fetch(...)`.
Chat(p, s) ==
    /\ pc \in {"idle", "done"}
    /\ calls < MaxCalls
    /\ pc' = "fetch"
    /\ provider' = p
    /\ streaming' = s
    /\ calls' = calls + 1
    /\ requests' = requests + 1
    /\ resp' = NoResponse
    /\ rest' = << >>
    /\ reads' = 0
    /\ held' = << >>
    /\ buffer' = << >>
    /\ fullResponse' = << >>
    /\ deltas' = << >>
    /\ outcome' = "pending"
    /\ result' = << >>
    /\ error' = NoError
    /\ previous' = <<provider, streaming>>
    /\ UNCHANGED outside

\* fetch rejects: connection refused, DNS failure.
FetchReject ==
    /\ pc = "fetch"
    /\ Reject(NetworkError)
    /\ UNCHANGED <<provider, streaming, calls, requests, resp, rest, reads, held,
                   buffer, fullResponse, deltas, previous, outside>>

\* fetch resolves to the response r; the call goes on to the branch r selects.
FetchResolve(r) ==
    /\ pc = "fetch"
    /\ resp' = r
    /\ pc' = IF ~r.ok THEN "errbody" ELSE IF streaming THEN "read" ELSE "json"
    /\ rest' = IF r.ok /\ streaming THEN r.body ELSE << >>
    /\ UNCHANGED <<provider, streaming, calls, requests, reads, held, buffer,
                   fullResponse, deltas, outcome, result, error, previous, outside>>

\* `if (!response.ok)`: the error body is read and the call throws.
ThrowHttpError ==
    /\ pc = "errbody"
    /\ Reject(HttpError(provider, resp))
    /\ UNCHANGED <<provider, streaming, calls, requests, resp, rest, reads, held,
                   buffer, fullResponse, deltas, previous, outside>>

\* The chunk sizes reader.read() may deliver next.
ChunkSizes ==
    IF reads + 1 >= MaxReads THEN {Len(rest)} ELSE 1..Len(rest)

\* OpenAI, Anthropic: reader.read() delivers the next k bytes and the loop
\* body runs on them.
StreamRead(k) ==
    /\ pc = "read"
    /\ provider \in LineFramed
    /\ rest # << >>
    /\ k \in ChunkSizes
    /\ LET emitted == ProcessChunk(provider, SubSeq(rest, 1, k))
       IN  /\ fullResponse' = AccumulateAll(fullResponse, emitted)
           /\ deltas' = deltas \o emitted
    /\ rest' = SubSeq(rest, k + 1, Len(rest))
    /\ reads' = reads + 1
    /\ UNCHANGED <<pc, provider, streaming, calls, requests, resp, held, buffer,
                   outcome, result, error, previous, outside>>

\* OpenAI, Anthropic: reader.read() reports done; `return fullResponse`.
StreamReturn ==
    /\ pc = "read"
    /\ provider \in LineFramed
    /\ rest = << >>
    /\ Resolve(fullResponse)
    /\ UNCHANGED <<provider, streaming, calls, requests, resp, rest, reads, held,
                   buffer, fullResponse, deltas, previous, outside>>

\* Google: reader.read() delivers the next k bytes, appended to the buffer.
GoogleRead(k) ==
    /\ pc = "read"
    /\ provider = "google"
    /\ rest # << >>
    /\ k \in ChunkSizes
    /\ LET d == DecodeStream(held, SubSeq(rest, 1, k))
       IN  /\ buffer' = buffer \o d.out
           /\ held' = d.held
    /\ rest' = SubSeq(rest, k + 1, Len(rest))
    /\ reads' = reads + 1
    /\ UNCHANGED <<pc, provider, streaming, calls, requests, resp, fullResponse,
                   deltas, outcome, result, error, previous, outside>>

\* Google: reader.read() reports done; the buffer is parsed, onStream is
\* called per element and the call returns or throws.
GoogleReturn ==
    /\ pc = "read"
    /\ provider = "google"
    /\ rest = << >>
    /\ LET fin == GoogleFinish(buffer)
       IN  /\ fullResponse' = AccumulateAll(fullResponse, fin.emitted)
           /\ deltas' = deltas \o fin.emitted
           /\ IF fin.threw THEN Reject(ParseFailure)
              ELSE Resolve(AccumulateAll(fullResponse, fin.emitted))
    /\ UNCHANGED <<provider, streaming, calls, requests, resp, rest, reads, held,
                   buffer, previous, outside>>

\* reader.read() rejects: the connection closed abruptly.
ReadFail ==
    /\ pc = "read"
    /\ rest # << >>
    /\ Reject(NetworkError)
    /\ UNCHANGED <<provider, streaming, calls, requests, resp, rest, reads, held,
                   buffer, fullResponse, deltas, previous, outside>>

\* No onStream: `await response.json()` and return the text of the body.
ReturnJson ==
    /\ pc = "json"
    /\ LET r == JsonResult(provider, resp.body)
       IN  IF r.ok THEN Resolve(r.text) ELSE Reject(r.error)
    /\ UNCHANGED <<provider, streaming, calls, requests, resp, rest, reads, held,
                   buffer, fullResponse, deltas, previous, outside>>

\* Calls made one after the other, with and without onStream, on any
\* provider, against a few responses of every kind.
Next ==
    \/ \E p \in Providers, s \in BOOLEAN : Chat(p, s)
    \/ FetchReject
    \/ pc = "fetch" /\ \E r \in BasicResponses(provider, streaming) : FetchResolve(r)
    \/ ThrowHttpError
    \/ pc = "read" /\ \E k \in 1..Len(rest) : StreamRead(k)
    \/ StreamReturn
    \/ pc = "read" /\ \E k \in 1..Len(rest) : GoogleRead(k)
    \/ GoogleReturn
    \/ ReadFail
    \/ ReturnJson

Spec == Init /\ [][Next]_vars

\* One streamed call, against every response body built from the pools and
\* every way of cutting it into chunks.
NextStream ==
    \/ calls = 0 /\ \E p \in Providers : Chat(p, TRUE)
    \/ pc = "fetch" /\ \E r \in StreamResponses(provider) : FetchResolve(r)
    \/ pc = "read" /\ \E k \in 1..Len(rest) : StreamRead(k)
    \/ StreamReturn
    \/ pc = "read" /\ \E k \in 1..Len(rest) : GoogleRead(k)
    \/ GoogleReturn
    \/ ReadFail

SpecStream == Init /\ [][NextStream]_vars

\* ------------------------------------------- the factory and the services
\* The letters of the identifiers, upper case and lower case.
UpperCase == <<"A", "C", "E", "G", "H", "I", "L", "M", "N", "O", "P", "R", "S", "T">>
LowerCase == <<"a", "c", "e", "g", "h", "i", "l", "m", "n", "o", "p", "r", "s", "t">>

ToLowerChar(c) ==
    IF \E i \in 1..Len(UpperCase) : UpperCase[i] = c
    THEN LowerCase[CHOOSE i \in 1..Len(UpperCase) : UpperCase[i] = c]
    ELSE c

\* The identifier is compared as it was written.
SameCase(s) == s

\* String.prototype.toLowerCase on a sequence of characters.
ToLowerCase(s) == [i \in 1..Len(s) |-> ToLowerChar(s[i])]

\* The characters of the three `case` labels of the factory's switch.
Spell(kind) ==
    CASE kind = "openai" -> <<"o", "p", "e", "n", "a", "i">>
      [] kind = "anthropic" -> <<"a", "n", "t", "h", "r", "o", "p", "i", "c">>
      [] kind = "google" -> <<"g", "o", "o", "g", "l", "e">>

\* The default value of the constructors' modelName parameter.
DefaultModel(kind) ==
    CASE kind = "openai" -> "gpt-3.5-turbo"
      [] kind = "anthropic" -> "claude-3-opus"
      [] kind = "google" -> "gemini-pro"

\* The base URL a service uses when it is given none.
DefaultBaseUrl(kind) ==
    CASE kind = "openai" -> "https://api.openai.com/v1"
      [] kind = "anthropic" -> "https://api.anthropic.com/v1"
      [] kind = "google" -> "https://generativelanguage.googleapis.com/v1beta"

\* A default parameter value: used when the argument is undefined.
OrDefault(v, d) == IF v = Undefined THEN d ELSE v

\* `new OpenAIService(apiKey, modelName, baseUrl)`; `baseUrl || default`.
OpenAIService(apiKey, modelName, baseUrl) ==
    [kind |-> "openai", apiKey |-> apiKey,
     modelName |-> OrDefault(modelName, DefaultModel("openai")),
     baseUrl |-> IF baseUrl \in {Undefined, ""} THEN DefaultBaseUrl("openai")
                 ELSE baseUrl]

\* `new AnthropicService(apiKey, modelName)`: baseUrl is a field initialiser.
AnthropicService(apiKey, modelName) ==
    [kind |-> "anthropic", apiKey |-> apiKey,
     modelName |-> OrDefault(modelName, DefaultModel("anthropic")),
     baseUrl |-> DefaultBaseUrl("anthropic")]

\* `new GoogleService(apiKey, modelName)`: baseUrl is a field initialiser.
GoogleService(apiKey, modelName) ==
    [kind |-> "google", apiKey |-> apiKey,
     modelName |-> OrDefault(modelName, DefaultModel("google")),
     baseUrl |-> DefaultBaseUrl("google")]

\* `new Error(`Unsupported AI service type: ${type}`)`.
UnsupportedError(type) ==
    [type |-> "Error", prefix |-> "Unsupported AI service type: ", detail |-> type]

\* AIServiceFactory.createService: the service returned or the error thrown.
CreateServiceResult(type, apiKey, modelName, baseUrl) ==
    LET t == ToLowerCase(type)
    IN  CASE t = Spell("openai") ->
               [threw |-> FALSE, error |-> NoError,
                service |-> OpenAIService(apiKey, modelName, baseUrl)]
          [] t = Spell("anthropic") ->
               [threw |-> FALSE, error |-> NoError,
                service |-> AnthropicService(apiKey, modelName)]
          [] t = Spell("google") ->
               [threw |-> FALSE, error |-> NoError,
                service |-> GoogleService(apiKey, modelName)]
          [] OTHER ->
               [threw |-> TRUE, error |-> UnsupportedError(type),
                service |-> NoService]

\* ------------------------------------------------ options and requests
\* `o?.k`: the value under key k, undefined when there is no such key.
Get(o, k) == IF k \in DOMAIN o THEN o[k] ELSE Undefined

\* `{...base, ...o}`: every key of o, present with whatever value, wins.
Spread(base, o) ==
    [k \in DOMAIN base \cup DOMAIN o |-> IF k \in DOMAIN o THEN o[k] ELSE base[k]]

\* JSON.stringify of a flat object: a property whose value is undefined is
\* left out.
JSONStringify(o) == [k \in {j \in DOMAIN o : o[j] # Undefined} |-> o[k]]

\* The object is passed on with its undefined values.
KeepUndefined(o) == o

\* `Object.keys(o).forEach(key => o[key] === undefined && delete o[key])`.
DeleteUndefined(o) == [k \in {j \in DOMAIN o : o[j] # Undefined} |-> o[k]]

\* Values that `||` replaces by its right-hand side.
Falsy(v) == v \in {Undefined, "0", ""}

\* MainArea: the values of aiConfig.  Numbers are written as strings; a chat
\* saved without one of the fields loads with that field undefined.
AiConfigs ==
    [temperature : {Undefined, "0.7"},
     max_tokens : {Undefined, "0", "1000"},
     top_p : {Undefined, "1"},
     frequency_penalty : {"0"},
     presence_penalty : {"0"}]

\* MainArea: "Filter options based on the provider".
ApiOptions(providerName, cfg) ==
    CASE providerName = "openai" ->
           [temperature |-> cfg.temperature,
            max_tokens |-> cfg.max_tokens,
            top_p |-> cfg.top_p,
            frequency_penalty |-> cfg.frequency_penalty,
            presence_penalty |-> cfg.presence_penalty]
      [] providerName = "anthropic" ->
           [temperature |-> cfg.temperature,
            max_tokens |-> cfg.max_tokens,
            top_p |-> cfg.top_p]
      [] providerName = "google" ->
           DeleteUndefined([temperature |-> cfg.temperature,
                            topP |-> cfg.top_p,
                            maxOutputTokens |-> cfg.max_tokens])
      [] OTHER -> EmptyObject

\* `onStream !== undefined`, as JSON.stringify writes it.
StreamFlag(s) == IF s THEN "true" ELSE "false"

\* The request OpenAIService.chat hands to fetch.
OpenAIChatRequest(svc, options, s) ==
    [kind |-> "chat", method |-> "POST",
     url |-> <<svc.baseUrl, "/chat/completions">>,
     auth |-> "Authorization",
     body |-> JSONStringify(Spread([model |-> svc.modelName,
                                    messages |-> "messages",
                                    stream |-> StreamFlag(s)], options))]

\* The request AnthropicService.chat hands to fetch.
AnthropicChatRequest(svc, options, s) ==
    [kind |-> "chat", method |-> "POST",
     url |-> <<svc.baseUrl, "/messages">>,
     auth |-> "x-api-key",
     body |-> JSONStringify(Spread(
                 [model |-> svc.modelName,
                  messages |-> "messages",
                  max_tokens |-> IF Falsy(Get(options, "max_tokens")) THEN "1000"
                                 ELSE Get(options, "max_tokens"),
                  stream |-> StreamFlag(s)], options))]

\* The request GoogleService.chat hands to fetch.
GoogleChatRequest(svc, options, s) ==
    [kind |-> "chat", method |-> "POST",
     url |-> <<svc.baseUrl, "/models/", svc.modelName,
               ":streamGenerateContent?key=", svc.apiKey>>,
     auth |-> "",
     body |-> [contents |-> "contents",
               generationConfig |->
                   JSONStringify([temperature |-> Get(options, "temperature"),
                                  topP |-> Get(options, "top_p"),
                                  maxOutputTokens |-> Get(options, "max_tokens")])]]

ChatRequest(svc, options, s) ==
    CASE svc.kind = "openai" -> OpenAIChatRequest(svc, options, s)
      [] svc.kind = "anthropic" -> AnthropicChatRequest(svc, options, s)
      [] svc.kind = "google" -> GoogleChatRequest(svc, options, s)

\* The request validateKey hands to fetch.
ValidateRequest(svc) ==
    [kind |-> "models", method |-> "GET",
     url |-> IF svc.kind = "google"
             THEN <<svc.baseUrl, "/models?key=", svc.apiKey>>
             ELSE <<svc.baseUrl, "/models">>,
     auth |-> CASE svc.kind = "openai" -> "Authorization"
                [] svc.kind = "anthropic" -> "x-api-key"
                [] svc.kind = "google" -> "",
     body |-> EmptyObject]

\* Response.ok: the status is in the range 200-299.
Ok(status) == status \in 200..299

\* validateKey without its catch block: a rejected fetch escapes.
ValidateKeyUncaught(rejected, status) ==
    IF rejected THEN [threw |-> TRUE, value |-> FALSE]
    ELSE [threw |-> FALSE, value |-> Ok(status)]

\* validateKey: `try { ... return response.ok } catch { return false }`.
ValidateKeyResult(rejected, status) ==
    IF rejected THEN [threw |-> FALSE, value |-> FALSE]
    ELSE [threw |-> FALSE, value |-> Ok(status)]

\* ------------------------------------------------ the steps on the wire
\* Identifiers handed to the factory: the three known ones in lower case, in
\* upper case and as MainArea's provider list writes them, and unknown ones.
Identifiers ==
    {Spell(k) : k \in Providers}
    \cup { <<"O", "P", "E", "N", "A", "I">>, <<"O", "p", "e", "n", "A", "I">>,
           <<"A", "N", "T", "H", "R", "O", "P", "I", "C">>,
           <<"A", "n", "t", "h", "r", "o", "p", "i", "c">>,
           <<"G", "O", "O", "G", "L", "E">>, <<"G", "o", "o", "g", "l", "e">>,
           <<"m", "i", "s", "t", "r", "a", "l">>, <<"o", "p", "e", "n">>, << >> }

\* App: the names of the provider list.
ProviderNames ==
    { <<"O", "p", "e", "n", "A", "I">>, <<"A", "n", "t", "h", "r", "o", "p", "i", "c">>,
      <<"G", "o", "o", "g", "l", "e">> }

ModelNames == {Undefined, "model-x"}
CustomBaseUrl == "https://proxy.example/v1"
BaseUrls == {Undefined, "", CustomBaseUrl}
\* App: the base URL of a provider's configuration is a string, empty when
\* the user cleared the field.
ConfiguredBaseUrls == {"", CustomBaseUrl}
ApiKey == "sk-1"

\* The kind a lower-case identifier names ("none" for an unknown one).
KindOf(t) ==
    IF \E k \in Providers : Spell(k) = t
    THEN CHOOSE k \in Providers : Spell(k) = t
    ELSE "none"

\* AIServiceFactory.createService(type, ApiKey, modelName, baseUrl) is called.
CreateService(type, modelName, baseUrl) ==
    /\ LET r == CreateServiceResult(type, ApiKey, modelName, baseUrl)
       IN  /\ service' = r.service
           /\ factoryError' = r.error
    /\ args' = [type |-> type, modelName |-> modelName, baseUrl |-> baseUrl]
    /\ op' = "createService"
    /\ UNCHANGED <<apiOptions, request, fetches, keyCheck, aiConfig, outsideWire>>

\* MainArea.handleSendMessage, from the provider lookup to `await fetch`: the
\* provider named name is selected, its configured base URL is baseUrl, the
\* model model is selected and aiConfig is cfg.
SendMessage(name, model, baseUrl, cfg) ==
    /\ fetches < MaxFetches
    /\ LET providerName == ToLowerCase(name)
           r == CreateServiceResult(providerName, ApiKey, model, baseUrl)
           options == ApiOptions(KindOf(providerName), cfg)
       IN  /\ ~r.threw
           /\ service' = r.service
           /\ factoryError' = r.error
           /\ args' = [type |-> providerName, modelName |-> model, baseUrl |-> baseUrl]
           /\ apiOptions' = options
           /\ request' = ChatRequest(r.service, options, TRUE)
    /\ aiConfig' = cfg
    /\ fetches' = fetches + 1
    /\ op' = "sendMessage"
    /\ UNCHANGED <<keyCheck, outsideWire>>

\* chat(messages, apiOptions, onStream) is called on the service (s: onStream
\* is supplied) and runs up to `await fetch`.
ChatCall(s) ==
    /\ service # NoService
    /\ fetches < MaxFetches
    /\ request' = ChatRequest(service, apiOptions, s)
    /\ fetches' = fetches + 1
    /\ op' = "chat"
    /\ UNCHANGED <<service, args, factoryError, apiOptions, keyCheck, aiConfig, outsideWire>>

\* validateKey() is called on the service and runs up to `await fetch`.
ValidateKey ==
    /\ service # NoService
    /\ keyCheck.stage # "fetch"
    /\ fetches < MaxFetches
    /\ request' = ValidateRequest(service)
    /\ fetches' = fetches + 1
    /\ keyCheck' = [NoKeyCheck EXCEPT !.stage = "fetch"]
    /\ op' = "validateKey"
    /\ UNCHANGED <<service, args, factoryError, apiOptions, aiConfig, outsideWire>>

\* The statuses a model-listing endpoint answers with.
Statuses == {200, 204, 304, 401, 404, 500}

\* The fetch of validateKey settles: it rejects, or resolves to a response
\* with the given status; validateKey returns.
ValidateSettle(rejected, status) ==
    /\ keyCheck.stage = "fetch"
    /\ LET r == ValidateKeyResult(rejected, status)
       IN  keyCheck' = [stage |-> "done", rejected |-> rejected,
                        status |-> IF rejected THEN 0 ELSE status,
                        threw |-> r.threw, value |-> r.value]
    /\ op' = "settle"
    /\ UNCHANGED <<service, args, factoryError, apiOptions, request, fetches,
                   aiConfig, outsideWire>>

\* The factory called directly, services validated and used, and messages
\* sent from MainArea.
NextWire ==
    \/ request = NoRequest /\ \E t \in Identifiers, m \in ModelNames, b \in BaseUrls :
           CreateService(t, m, b)
    \/ \E n \in ProviderNames, b \in ConfiguredBaseUrls, cfg \in AiConfigs :
           SendMessage(n, "model-x", b, cfg)
    \/ \E s \in BOOLEAN : ChatCall(s)
    \/ ValidateKey
    \/ \E st \in Statuses : ValidateSettle(FALSE, st)
    \/ ValidateSettle(TRUE, 0)

SpecWire == Init /\ [][NextWire]_vars

\* ------------------------------------------------ calls in flight together
\* The locals are kept in one place that every call works on.
SharedLocals(i) == 1

\* The call whose locals (decoder, buffer, fullResponse) call i works on: they
\* are declared inside chat(), so every call works on its own.
LocalsOf(i) == i

\* The streamed response a call in flight receives: two texts, one of them
\* the two-byte character.
PairBody(p) ==
    IF p = "google"
    THEN ArrayBody(<<GoogleElement(<<LEAD, TRAIL>>), GoogleElement(<<"a">>)>>)
    ELSE LinesBody(<<DataLine(p, <<LEAD, TRAIL>>), DataLine(p, <<"a">>)>>)

\* The services the calls in flight are made on: one of each strategy.
PairProviders == {"openai", "google"}

\* Another call is in the middle of its stream.
OtherMidStream(i) ==
    \E j \in CallIds \ {i} :
        flight[j].pc = "read" /\ flight[j].chunks # << >> /\ flight[j].rest # << >>

\* chat(messages, options, onStream) is called as call i on the service of
\* provider p and runs up to `await fetch(...)`.
PairChat(i, p) ==
    /\ flight[i].pc = "none"
    /\ flight' = [flight EXCEPT ![i] = [NoCall EXCEPT !.pc = "fetch", !.provider = p]]
    /\ UNCHANGED <<heard, outsidePair>>

\* The fetch of call i resolves to a successful response; the call declares
\* its locals and gets the reader of the body.
PairFetchResolve(i) ==
    /\ flight[i].pc = "fetch"
    /\ flight' = [flight EXCEPT ![LocalsOf(i)].held = << >>,
                                ![LocalsOf(i)].buffer = << >>,
                                ![LocalsOf(i)].fullResponse = << >>,
                                ![i].pc = "read",
                                ![i].rest = PairBody(flight[i].provider)]
    /\ UNCHANGED <<heard, outsidePair>>

\* reader.read() of call i delivers the next k bytes and the loop body of the
\* call runs on them.
PairRead(i, k) ==
    /\ flight[i].pc = "read"
    /\ flight[i].rest # << >>
    /\ k \in 1..Len(flight[i].rest)
    /\ Len(flight[i].chunks) + 1 >= MaxReads => k = Len(flight[i].rest)
    /\ LET p == flight[i].provider
           chunk == SubSeq(flight[i].rest, 1, k)
           d == DecodeStream(flight[LocalsOf(i)].held, chunk)
           emitted == IF p \in LineFramed THEN ProcessChunk(p, chunk) ELSE << >>
       IN  /\ flight' =
                 [flight EXCEPT
                    ![i].rest = SubSeq(@, k + 1, Len(@)),
                    ![i].chunks = Append(@, chunk),
                    ![i].mixed = @ \/ OtherMidStream(i),
                    ![LocalsOf(i)].held = IF p = "google" THEN d.held ELSE @,
                    ![LocalsOf(i)].buffer = IF p = "google" THEN @ \o d.out ELSE @,
                    ![LocalsOf(i)].fullResponse = AccumulateAll(@, emitted)]
           /\ heard' = [heard EXCEPT ![i] = @ \o emitted]
    /\ UNCHANGED outsidePair

\* reader.read() of call i reports done: a line-framed call returns
\* fullResponse; a Google call parses its buffer, calls onStream per element
\* and returns or throws.
PairReturn(i) ==
    /\ flight[i].pc = "read"
    /\ flight[i].rest = << >>
    /\ LET p == flight[i].provider
           fin == IF p = "google" THEN GoogleFinish(flight[LocalsOf(i)].buffer)
                  ELSE [emitted |-> << >>, threw |-> FALSE]
           full == AccumulateAll(flight[LocalsOf(i)].fullResponse, fin.emitted)
       IN  /\ flight' =
                 [flight EXCEPT
                    ![LocalsOf(i)].fullResponse = full,
                    ![i].pc = "done",
                    ![i].outcome = IF fin.threw THEN "rejected" ELSE "resolved",
                    ![i].result = IF fin.threw THEN << >> ELSE full,
                    ![i].error = IF fin.threw THEN ParseFailure ELSE NoError]
           /\ heard' = [heard EXCEPT ![i] = @ \o fin.emitted]
    /\ UNCHANGED outsidePair

\* Two streamed calls, started at any time, whose reads interleave in every
\* order.
NextPair ==
    \/ \E i \in CallIds, p \in PairProviders : PairChat(i, p)
    \/ \E i \in CallIds : PairFetchResolve(i)
    \/ \E i \in CallIds : flight[i].pc = "read" /\
           \E k \in 1..Len(flight[i].rest) : PairRead(i, k)
    \/ \E i \in CallIds : PairReturn(i)

SpecPair == Init /\ [][NextPair]_vars

\* ------------------------------------------------------------- MainArea
\* A message of the list.  chat is the chat the message was written in; the
\* program does not store it.
Message(role, n, content, chat) ==
    [id |-> <<role, n>>, role |-> role, content |-> content, chat |-> chat]

\* The texts the user types: a message and a run of spaces.
Texts == {"hi", SP}

\* `!inputMessage.trim()`: the input is empty or made of white space.
IsBlankInput(text) == text \in {"", SP}

\* The guard of handleSendMessage ignores isLoading.
BlockedOnBlank(text, loading) == IsBlankInput(text)

\* `if (!inputMessage.trim() || isLoading) return`.
Blocked(text, loading) == IsBlankInput(text) \/ loading

\* The API keys a provider's configuration holds: none (the default), white
\* space, a key.
ConfiguredKey == <<"s", "k">>
ApiKeys == {<< >>, <<SP, SP>>, ConfiguredKey}

\* `!config.apiKey`: only the empty key counts as missing.
KeyEmpty(key) == key = << >>

\* `!config.apiKey || config.apiKey.trim() === ''`.
KeyMissing(key) == key = << >> \/ Trim(key) = << >>

\* The chunks onStream is called with: a visible one and a blank one.
Chunks == {"x", SP}

\* What the content of a message shows after a failed call.
ErrorContent == <<"ERR">>

\* What it shows when the API key of the provider is not configured.
ConfigErrorContent == <<"NOKEY">>

\* saveChatData with the itemId and the messages of a render: the store after
\* it.
Saved(st, id, msgs) ==
    IF id # Undefined /\ msgs # << >> THEN [st EXCEPT ![id] = msgs] ELSE st

\* `await store.get(itemId || "default")` as loadChatData uses it: nothing is
\* ever saved under "default".
SavedData(st, id) == IF id = Undefined THEN << >> ELSE st[id]

\* loadChatData after its await: the messages it sets.
Loaded(l) == IF l.data # << >> /\ l.itemId # Undefined THEN l.data ELSE << >>

\* The list without its i-th entry.
Without(ls, i) == SubSeq(ls, 1, i - 1) \o SubSeq(ls, i + 1, Len(ls))

\* `latestMessages.map(msg => msg.id === id ? {...msg, content: f(msg)} : msg)`
\* where f appends the chunk.
AppendChunk(msgs, id, chunk) ==
    [i \in 1..Len(msgs) |->
        IF msgs[i].id = id THEN [msgs[i] EXCEPT !.content = Append(@, chunk)]
        ELSE msgs[i]]

\* The same map, where f replaces the content by the given text.
SetContent(msgs, id, content) ==
    [i \in 1..Len(msgs) |->
        IF msgs[i].id = id THEN [msgs[i] EXCEPT !.content = content]
        ELSE msgs[i]]

\* The map of the catch block: the content becomes the error text.
SetError(msgs, id) == SetContent(msgs, id, ErrorContent)

\* String.prototype.trim on a chunk leaves the empty string.
IsBlank(chunk) == chunk = SP

\* The ids of the history items.
HistoryIds == {h.id : h \in historyItems}

\* The user types a text into the input box, which is empty or holds white
\* space only.
TypeInput(text) ==
    /\ IsBlankInput(inputMessage)
    /\ text # inputMessage
    /\ inputMessage' = text
    /\ UNCHANGED <<itemId, messages, store, messageIdCounter, isLoading, loads,
                   stream, historyItems, starts, apiKeyRead, outsideUI>>

\* The route changes to the chat x (a click on a history item) or to "/"
\* (new chat): MainArea renders with the new itemId and the messages it has;
\* loadChatData clears the messages and asks the store, saveChatData runs
\* with the values of that render.  The store may answer the get before or
\* after it takes the set.
Navigate(x) ==
    /\ x # itemId
    /\ x \in HistoryIds \cup {Undefined}
    /\ Len(loads) < MaxLoads
    /\ itemId' = x
    /\ messages' = << >>
    /\ store' = Saved(store, x, messages)
    /\ \E data \in {SavedData(store, x), SavedData(Saved(store, x, messages), x)} :
           loads' = Append(loads, [itemId |-> x, data |-> data])
    /\ stream' = [stream EXCEPT !.switched = @ \/ stream.active]
    /\ UNCHANGED <<messageIdCounter, inputMessage, isLoading, historyItems,
                   starts, apiKeyRead, outsideUI>>

\* App renders again with the route unchanged (sidebar toggle, settings
\* modal, history or configuration change): MainArea gets a new providers
\* array, so loadChatData runs again.
AppRerender ==
    /\ Len(loads) < MaxLoads
    /\ messages' = << >>
    /\ loads' = Append(loads, [itemId |-> itemId, data |-> SavedData(store, itemId)])
    /\ UNCHANGED <<itemId, store, messageIdCounter, inputMessage, isLoading, stream,
                   historyItems, starts, apiKeyRead, outsideUI>>

\* store.get of the i-th waiting loadChatData resolves: the messages are set
\* and saveChatData runs with the itemId of the current render.
LoadResolve(i) ==
    /\ i \in 1..Len(loads)
    /\ messages' = Loaded(loads[i])
    /\ store' = Saved(store, itemId, Loaded(loads[i]))
    /\ loads' = Without(loads, i)
    /\ UNCHANGED <<itemId, messageIdCounter, inputMessage, isLoading, stream,
                   historyItems, starts, apiKeyRead, outsideUI>>

\* handleSendMessage for the first message of a new chat: onFirstMessage
\* (App.handleFirstMessage) adds the history item newId and navigates to it;
\* then the input is cleared and the handler returns.
HandleFirstMessage(newId) ==
    /\ ~Blocked(inputMessage, isLoading)
    /\ messages = << >> /\ itemId = Undefined
    /\ newId \in ChatIds \ HistoryIds
    /\ Len(loads) < MaxLoads
    /\ historyItems' = historyItems \cup {[id |-> newId, text |-> inputMessage]}
    /\ itemId' = newId
    /\ messages' = << >>
    /\ loads' = Append(loads, [itemId |-> newId, data |-> SavedData(store, newId)])
    /\ inputMessage' = ""
    /\ isLoading' = FALSE
    /\ UNCHANGED <<store, messageIdCounter, stream, starts, apiKeyRead, outsideUI>>

\* handleSendMessage in every other case, key being the API key of the
\* selected provider's configuration: the user message and the assistant
\* placeholder are added; without a key the placeholder is given the
\* configuration error and the handler returns, with a key the chat() call is
\* made; saveChatData runs.
HandleSendMessage(key) ==
    /\ ~Blocked(inputMessage, isLoading)
    /\ ~(messages = << >> /\ itemId = Undefined)
    /\ messageIdCounter + 2 <= MaxIds
    /\ Len(messages) + 2 <= MaxMessages
    /\ LET userId == messageIdCounter
           assistantId == messageIdCounter + 1
           added == messages \o <<Message("user", userId, <<inputMessage>>, itemId),
                                  Message("assistant", assistantId, << >>, itemId)>>
           next == IF KeyMissing(key)
                   THEN SetContent(added, <<"assistant", assistantId>>, ConfigErrorContent)
                   ELSE added
       IN  /\ messages' = next
           /\ store' = Saved(store, itemId, next)
           /\ stream' = IF KeyMissing(key) THEN stream
                        ELSE [active |-> TRUE, assistantId |-> <<"assistant", assistantId>>,
                              count |-> 0, text |-> << >>, switched |-> FALSE,
                              outcome |-> "pending"]
    /\ messageIdCounter' = messageIdCounter + 2
    /\ inputMessage' = ""
    /\ isLoading' = ~KeyMissing(key)
    /\ apiKeyRead' = key
    /\ UNCHANGED <<itemId, loads, historyItems, starts, outsideUI>>

\* onStream is called with a chunk: a chunk that is not blank is appended to
\* the message with the placeholder's id, and saveChatData runs.
Delta(chunk) ==
    /\ stream.active
    /\ stream.count < MaxDeltas
    /\ stream' = [stream EXCEPT !.count = @ + 1, !.text = Append(@, chunk)]
    /\ IF IsBlank(chunk)
       THEN UNCHANGED <<messages, store>>
       ELSE LET next == AppendChunk(messages, stream.assistantId, chunk)
            IN  /\ messages' = next
                /\ store' = Saved(store, itemId, next)
    /\ UNCHANGED <<itemId, messageIdCounter, inputMessage, isLoading, loads,
                   historyItems, starts, apiKeyRead, outsideUI>>

\* chat() resolves: `finally { setIsLoading(false) }`.
StreamEnd ==
    /\ stream.active
    /\ stream' = [NoStream EXCEPT !.outcome = "resolved"]
    /\ isLoading' = FALSE
    /\ UNCHANGED <<itemId, messages, store, messageIdCounter, inputMessage, loads,
                   historyItems, starts, apiKeyRead, outsideUI>>

\* chat() rejects: the catch block writes the error into the placeholder.
StreamFail ==
    /\ stream.active
    /\ stream' = [NoStream EXCEPT !.outcome = "rejected"]
    /\ isLoading' = FALSE
    /\ LET next == SetError(messages, stream.assistantId)
       IN  /\ messages' = next
           /\ store' = Saved(store, itemId, next)
    /\ UNCHANGED <<itemId, messageIdCounter, inputMessage, loads, historyItems,
                   starts, apiKeyRead, outsideUI>>

\* The app is closed and started again: MainArea mounts at "/" with its
\* initial state; the store and the history keep what was saved.
Restart ==
    /\ starts < MaxStarts
    /\ starts' = starts + 1
    /\ itemId' = Undefined
    /\ messages' = << >>
    /\ messageIdCounter' = 0
    /\ inputMessage' = ""
    /\ isLoading' = FALSE
    /\ loads' = <<MountLoad>>
    /\ stream' = NoStream
    /\ UNCHANGED <<store, historyItems, apiKeyRead, outsideUI>>

\* What the user does, with a key in the provider's configuration and
\* messages that are not blank.
UserStep ==
    \/ \E text \in Texts \ {SP} : TypeInput(text)
    \/ \E x \in ChatIds \cup {Undefined} : Navigate(x)
    \/ AppRerender
    \/ \E newId \in ChatIds : HandleFirstMessage(newId)
    \/ HandleSendMessage(ConfiguredKey)
    \/ Restart

\* What the store and the network do.
SystemStep ==
    \/ \E i \in 1..MaxLoads : LoadResolve(i)
    \/ \E chunk \in Chunks : Delta(chunk)
    \/ StreamEnd
    \/ StreamFail

NextUI == UserStep \/ SystemStep

SpecUI == Init /\ [][NextUI]_vars

\* The store answers and the call in flight goes on; the user need not act.
SpecUIFair == SpecUI /\ WF_vars(SystemStep)

\* MainArea in one chat, with any API key in the provider's configuration:
\* the user types and sends, App renders again, the store and the network
\* answer.
NextSend ==
    \/ \E text \in Texts : TypeInput(text)
    \/ AppRerender
    \/ \E newId \in ChatIds : HandleFirstMessage(newId)
    \/ \E key \in ApiKeys : HandleSendMessage(key)
    \/ SystemStep

SpecSend == Init /\ [][NextSend]_vars

\* ------------------------------------------- the messages of a request body
\* The messages a caller hands to chat(): MainArea writes user and assistant
\* messages, the parameter type admits any role.
Roles == {"user", "assistant", "system"}
Contents == {"hi", "yo"}
ChatMessages == [role : Roles, content : Contents]

\* The role of the message is passed on as it is.
GoogleContentsSameRole(msgs) ==
    [i \in 1..Len(msgs) |->
        [role |-> msgs[i].role, parts |-> <<[text |-> msgs[i].content]>>]]

\* `messages.map(m => ({role: m.role === 'assistant' ? 'model' : 'user',
\* parts: [{text: m.content}]}))`: a new array of new objects.
GoogleContents(msgs) ==
    [i \in 1..Len(msgs) |->
        [role |-> IF msgs[i].role = "assistant" THEN "model" ELSE "user",
         parts |-> <<[text |-> msgs[i].content]>>]]

\* The list of the request body and the key it stands under: OpenAI and
\* Anthropic serialise the caller's array under `messages`, Google serialises
\* the mapped array under `contents`.
WireMessages(p, msgs) ==
    IF p = "google" THEN [key |-> "contents", list |-> GoogleContents(msgs)]
    ELSE [key |-> "messages", list |-> msgs]

\* The caller adds the message m to its array.
AddMessage(m) ==
    /\ Len(conversation) < MaxTurns
    /\ conversation' = Append(conversation, m)
    /\ UNCHANGED <<wire, outsideBody>>

\* chat(conversation, options, onStream) is called on the service of provider
\* p and builds its request body; no statement of chat() assigns to the array
\* or to one of its objects.
ChatBody(p) ==
    /\ wire.n < MaxCalls
    /\ LET w == WireMessages(p, conversation)
       IN  wire' = [n |-> wire.n + 1, provider |-> p, key |-> w.key, list |-> w.list]
    /\ UNCHANGED <<conversation, outsideBody>>

NextBody ==
    \/ \E m \in ChatMessages : AddMessage(m)
    \/ \E p \in Providers : ChatBody(p)

SpecBody == Init /\ [][NextBody]_vars

\* ================================================================ properties
\* The call in progress has ended.
Done == pc = "done"
\* A streamed call whose whole body was delivered has ended.
StreamDone == Done /\ streaming /\ resp # NoResponse /\ resp.ok /\ rest = << >>
LineDone == StreamDone /\ provider \in LineFramed
GoogleDone == StreamDone /\ provider = "google"

\* The lines of a response text that are not blank.
ResponseLines(body) ==
    SelectSeq(Split(Decode(body), NL), LAMBDA l : \E i \in 1..Len(l) : ~IsSpace(l[i]))

\* A `data: ` line whose payload is an event of provider p carrying a text.
IsTextLine(p, l) == Len(l) >= 3 /\ l[1] = DATA /\ IsEvent(Tail(l), Open(p), Close(p))
TextOf(l) == EventText(Tail(l))

\* C1: a chat() call with onDelta that resolves returns the concatenation,
\* in call order, of the arguments passed to onDelta, for every provider and
\* every sequence of chunks.
C1_ResultIsConcatOfDeltas ==
    (Done /\ streaming /\ outcome = "resolved") => result = Concat(deltas)

C1_Witness ==
    /\ Done /\ streaming /\ outcome = "resolved"
    /\ reads >= 2
    /\ Len(deltas) >= 2
    /\ deltas[1] # deltas[2]
    /\ result = deltas[1] \o deltas[2]

\* C2: for OpenAI and Anthropic the deltas and the returned text depend only
\* on the response text: however the response is cut into chunks, they are
\* those of the response delivered in one chunk.
C2_ChunkingIrrelevant ==
    (LineDone /\ outcome = "resolved") =>
        /\ deltas = ProcessChunk(provider, resp.body)
        /\ result = Concat(ProcessChunk(provider, resp.body))

\* A response made of text lines and blank lines, ended by one `data: [DONE]`
\* line.
IsDoneTerminated(p, body) ==
    LET ls == ResponseLines(body)
    IN  /\ Len(ls) >= 2
        /\ ls[Len(ls)] = DoneLine
        /\ \A i \in 1..(Len(ls) - 1) : IsTextLine(p, ls[i])

\* The texts of the text lines of a response, in line order.
TextsOf(p, body) ==
    LET ls == SelectSeq(ResponseLines(body), LAMBDA l : IsTextLine(p, l))
    IN  [i \in 1..Len(ls) |-> TextOf(ls[i])]

\* C3: for OpenAI and Anthropic a response of `data: {json}` lines and blank
\* lines ended by one `data: [DONE]` line yields exactly one onDelta call per
\* well-formed data line, in line order, and none for the [DONE] line.  Stated
\* here for the delivery that is kindest to the code, the whole response in
\* one chunk.
C3_OneDeltaPerDataLine ==
    (LineDone /\ reads = 1 /\ IsDoneTerminated(provider, resp.body)) =>
        deltas = TextsOf(provider, resp.body)

\* The bytes the step from this state to the next one reads.
ChunkRead == SubSeq(rest, 1, Len(rest) - Len(rest'))
\* A step of the read loop of a line-framed provider that reads a chunk.
LineReadStep == pc = "read" /\ provider \in LineFramed /\ reads' = reads + 1

HoldsDone(l) == DONE \in Range(l)

\* The first chunk of the response has been read and held a `data: [DONE]`
\* line.
DoneLineProcessed ==
    /\ pc = "read" /\ provider \in LineFramed /\ reads = 1
    /\ LET ls == SSELines(Decode(SubSeq(resp.body, 1, Len(resp.body) - Len(rest))))
       IN  \E i \in 1..Len(ls) : ls[i] = DoneLine

RECURSIVE WithoutDone(_)
\* The lines of ls that do not hold [DONE], in order.
WithoutDone(ls) ==
    IF ls = << >> THEN << >>
    ELSE IF HoldsDone(Head(ls)) THEN WithoutDone(Tail(ls))
    ELSE <<Head(ls)>> \o WithoutDone(Tail(ls))

IsSandwich(p, body) ==
    LET ls == ResponseLines(body)
    IN  /\ Len(ls) = 3
        /\ IsTextLine(p, ls[1])
        /\ ls[2] # << >> /\ Head(ls[2]) = DATA /\ ~JSONParse(Tail(ls[2])).ok
        /\ IsTextLine(p, ls[3])

\* C5: for OpenAI and Anthropic a `data: ` line whose payload is no JSON is
\* skipped without failing the call: a response with one such line between
\* two well-formed lines yields exactly the two deltas of the well-formed
\* lines, in order, and chat() resolves.
C5_MalformedLineSkipped ==
    (LineDone /\ IsSandwich(provider, resp.body)) =>
        /\ outcome = "resolved"
        /\ deltas = TextsOf(provider, resp.body)

IsNoTextLine(p, l) ==
    /\ l # << >> /\ Head(l) = DATA /\ ~HoldsDone(l)
    /\ JSONParse(Tail(l)).ok
    /\ LET v == JSONParse(Tail(l)).v
       IN  IF p = "openai"
           THEN v.t = "object" /\ v.shape = "openai" /\ (~v.has \/ v.text = << >>)
           ELSE v.t # "null" /\ ~(v.t = "object" /\ v.shape = "anthropic" /\ v.text # << >>)

\* The number of indices of s that satisfy Test.
Count(s, Test(_)) == Cardinality({i \in 1..Len(s) : Test(s[i])})

IsArrayText(text) == JSONParse(Trim(text)).ok /\ JSONParse(Trim(text)).v.t = "array"

RECURSIVE ElementTexts(_)
\* The candidates[0].content.parts[0].text of the elements that have one,
\* in array order.
ElementTexts(elems) ==
    IF elems = << >> THEN << >>
    ELSE (IF Head(elems).t = "object" /\ Head(elems).shape = "google"
             /\ Head(elems).text # << >>
          THEN <<Head(elems).text>> ELSE << >>) \o ElementTexts(Tail(elems))

\* C7: for Google streaming, when the buffered body is a JSON array, onDelta
\* is called with each element's candidates[0].content.parts[0].text in
\* array order, at most once per element, and chat() returns their
\* concatenation.
C7_ArrayYieldsTexts ==
    (GoogleDone /\ IsArrayText(buffer)) =>
        /\ outcome = "resolved"
        /\ deltas = ElementTexts(JSONParse(Trim(buffer)).v.elems)
        /\ result = Concat(ElementTexts(JSONParse(Trim(buffer)).v.elems))

\* C8: for Google streaming, a buffered response that is no valid JSON, or
\* whose top-level value is no array, makes chat() fail with the decode error
\* and onDelta is never called.
C8_NonArrayFails ==
    (GoogleDone /\ ~IsArrayText(buffer)) =>
        /\ outcome = "rejected"
        /\ error = ParseFailure
        /\ deltas = << >>

C8_Witness ==
    /\ GoogleDone /\ reads >= 2
    /\ JSONParse(Trim(buffer)).ok
    /\ JSONParse(Trim(buffer)).v.t # "array"
    /\ outcome = "rejected"

\* The error payload of a response carries an error message.
HasErrorMessage(body) ==
    /\ JSONParse(body).ok
    /\ HasError(JSONParse(body).v)
    /\ JSONParse(body).v.message # Undefined

\* C9: for every provider, when the response status is not successful,
\* chat() fails with an error whose message is the message of the JSON error
\* payload when the body is JSON with an error message, and the HTTP status
\* text otherwise (body no JSON, or JSON without an error message).
C9_HttpErrorMessage ==
    (Done /\ ~resp.ok) =>
        /\ outcome = "rejected"
        /\ error.type = "Error"
        /\ error.detail = IF HasErrorMessage(resp.body) THEN JSONParse(resp.body).v.message
                          ELSE resp.statusText

\* C10: every chat() call issues exactly one HTTP request, on success and on
\* every failure path, and a call with the inputs of the call before it
\* issues a request of its own.
C10_OneRequestPerCall == requests = calls

C10_Witness ==
    /\ Done /\ calls = 2 /\ requests = 2
    /\ previous = <<provider, streaming>>
    /\ outcome = "rejected"

\* ---------------------------------------------------------------------- C11
\* C11: validateKey() never throws, for any provider: it sends a GET to the
\* model-listing endpoint and resolves to true exactly when that request was
\* answered with a status from 200 to 299; it resolves to false on any other
\* status and when the request failed on the network.
C11_ValidateKeyNeverThrows ==
    /\ keyCheck.stage = "fetch" /\ op = "validateKey" =>
           request.method = "GET" /\ request.kind = "models"
    /\ keyCheck.stage = "done" =>
           /\ ~keyCheck.threw
           /\ keyCheck.value =
                 (~keyCheck.rejected /\ keyCheck.status >= 200 /\ keyCheck.status <= 299)

\* A validateKey() call on an Anthropic service whose request failed on the
\* network has resolved to false.
C11_Witness ==
    /\ keyCheck.stage = "done"
    /\ keyCheck.rejected
    /\ ~keyCheck.value
    /\ service.kind = "anthropic"

\* ---------------------------------------------------------------------- C12
\* a and b are the same word up to the case of their letters.
EqualIgnoringCase(a, b) ==
    /\ Len(a) = Len(b)
    /\ \A i \in 1..Len(a) :
           \/ a[i] = b[i]
           \/ \E j \in 1..Len(UpperCase) : {a[i], b[i]} = {UpperCase[j], LowerCase[j]}

\* C12: createService returns a service of kind k for every identifier that
\* spells k in any mix of upper and lower case; for every other identifier it
\* throws an error whose message carries the identifier as it was given; and
\* it makes no request.
C12_FactoryMatchesIgnoringCase ==
    [][op' = "createService" =>
          /\ \A k \in Providers :
                 EqualIgnoringCase(args'.type, Spell(k)) =>
                     service'.kind = k /\ factoryError' = NoError
          /\ (\A k \in Providers : ~EqualIgnoringCase(args'.type, Spell(k))) =>
                 /\ service' = NoService
                 /\ factoryError'.type = "Error"
                 /\ factoryError'.detail = args'.type
          /\ fetches' = fetches
          /\ request' = request]_vars

\* The factory was called with OPENAI and returned an OpenAI service.
C12_Witness ==
    /\ op = "createService"
    /\ args.type = <<"O", "P", "E", "N", "A", "I">>
    /\ service.kind = "openai"
    /\ factoryError = NoError

\* ---------------------------------------------------------------------- C13
\* C13: for every provider, the requests of a service that the factory made
\* with a baseUrl argument go to URLs that start with that baseUrl; the
\* provider's default baseUrl is used only when the argument was omitted (or
\* was the empty string).
C13_RequestsUseGivenBaseUrl ==
    (service # NoService /\ request # NoRequest) =>
        request.url[1] = IF args.baseUrl \in {Undefined, ""}
                         THEN DefaultBaseUrl(service.kind)
                         ELSE args.baseUrl

\* ---------------------------------------------------------------------- C14
\* MainArea has sent a message through a Google service.
GoogleSent == op = "sendMessage" /\ service.kind = "google"

\* C14: when MainArea sends a message through Google, the generationConfig of
\* the request body carries the configured max tokens as maxOutputTokens, the
\* configured top-p as topP and the configured temperature, for every one of
\* them that the configuration supplies.
C14_GoogleOptionsReachWire ==
    GoogleSent =>
        LET generationConfig == request.body.generationConfig
        IN  /\ aiConfig.temperature # Undefined =>
                   Get(generationConfig, "temperature") = aiConfig.temperature
            /\ aiConfig.max_tokens # Undefined =>
                   Get(generationConfig, "maxOutputTokens") = aiConfig.max_tokens
            /\ aiConfig.top_p # Undefined =>
                   Get(generationConfig, "topP") = aiConfig.top_p

\* ---------------------------------------------------------------------- C15
PenaltyKeys ==
    {"frequency_penalty", "presence_penalty", "frequencyPenalty", "presencePenalty"}

\* C15: the options object MainArea builds for Google has no penalty key and
\* no key whose value is undefined (such keys are absent); the one built for
\* Anthropic has no penalty key; the one built for OpenAI has all five keys.
C15_OptionKeys ==
    op = "sendMessage" =>
        /\ service.kind = "google" =>
               /\ DOMAIN apiOptions \cap PenaltyKeys = {}
               /\ \A k \in DOMAIN apiOptions : apiOptions[k] # Undefined
               /\ "temperature" \in DOMAIN apiOptions <=> aiConfig.temperature # Undefined
               /\ "topP" \in DOMAIN apiOptions <=> aiConfig.top_p # Undefined
               /\ "maxOutputTokens" \in DOMAIN apiOptions <=> aiConfig.max_tokens # Undefined
        /\ service.kind = "anthropic" =>
               DOMAIN apiOptions \cap PenaltyKeys = {}
        /\ service.kind = "openai" =>
               DOMAIN apiOptions = {"temperature", "max_tokens", "top_p",
                                    "frequency_penalty", "presence_penalty"}

\* MainArea has built the options for Google from a configuration without
\* top_p, and the options have no topP key.
C15_Witness ==
    /\ GoogleSent
    /\ aiConfig.top_p = Undefined
    /\ aiConfig.temperature # Undefined
    /\ "topP" \notin DOMAIN apiOptions
    /\ "temperature" \in DOMAIN apiOptions

\* ---------------------------------------------------------------------- C16
\* The deltas of a line-framed call that receives the chunks cs, one after
\* the other, with no other call in flight.
RECURSIVE LineRun(_, _)
LineRun(p, cs) ==
    IF cs = << >> THEN << >>
    ELSE ProcessChunk(p, Head(cs)) \o LineRun(p, Tail(cs))

\* The buffer of a Google call that receives the chunks cs with no other
\* call in flight, starting from the bytes kept and the text buf.
RECURSIVE DecodeRun(_, _, _)
DecodeRun(cs, kept, buf) ==
    IF cs = << >> THEN buf
    ELSE LET d == DecodeStream(kept, Head(cs))
         IN  DecodeRun(Tail(cs), d.held, buf \o d.out)

\* What the call c, run alone on the chunks it has received, has passed to
\* onStream so far, and whether it throws at the end.
Alone(c) ==
    IF c.provider \in LineFramed
    THEN [emitted |-> LineRun(c.provider, c.chunks), threw |-> FALSE]
    ELSE IF c.pc = "done" THEN GoogleFinish(DecodeRun(c.chunks, << >>, << >>))
    ELSE [emitted |-> << >>, threw |-> FALSE]

\* C16: whatever the interleaving of the reads of two calls in flight, the
\* onStream callback of each call has received exactly the deltas that the
\* call produces when it runs alone on the same chunks, and a call that has
\* ended has the outcome and the result of that run.
C16_CallsIndependent ==
    \A i \in CallIds :
        /\ flight[i].pc \in {"read", "done"} => heard[i] = Alone(flight[i]).emitted
        /\ flight[i].pc = "done" =>
               IF Alone(flight[i]).threw
               THEN flight[i].outcome = "rejected"
               ELSE /\ flight[i].outcome = "resolved"
                    /\ flight[i].result = Concat(Alone(flight[i]).emitted)

\* Two Google calls have ended; each read a chunk while the other was in the
\* middle of its stream, one of them cut inside the two-byte character, and
\* both passed their texts to their callbacks.
C16_Witness ==
    /\ \A i \in CallIds :
           /\ flight[i].pc = "done"
           /\ flight[i].provider = "google"
           /\ flight[i].mixed
           /\ Len(flight[i].chunks) = 2
           /\ heard[i] = << <<EACUTE>>, <<"a">> >>
    /\ flight[1].chunks[1][Len(flight[1].chunks[1])] = LEAD

\* ---------------------------------------------------------------------- C17
\* The list shows a user message with the given text, written in chat x.
ShowsUserMessage(x, text) ==
    \E i \in 1..Len(messages) :
        /\ messages[i].role = "user"
        /\ messages[i].chat = x
        /\ messages[i].content = <<text>>

\* C17: once the first message of a new chat has created the history item of
\* chat x, that message is eventually sent: a user message with the text of
\* the history item is added to the messages list of chat x (by the step
\* that also issues the chat request for it).
C17_FirstMessageIsSent ==
    \A x \in ChatIds :
        (x \in HistoryIds) ~>
            (\E h \in historyItems : h.id = x /\ ShowsUserMessage(x, h.text))

\* ---------------------------------------------------------------------- C18
\* C18: whatever the chat switches, sends and stream deltas, the messages
\* saved in the store under a chat id are messages written in that chat.
C18_StoreIsolated ==
    \A x \in ChatIds :
        \A i \in 1..Len(store[x]) : store[x][i].chat = x

\* ---------------------------------------------------------------------- C19
\* C19: the entries of the messages list have pairwise distinct ids.
C19_MessageIdsUnique ==
    \A i, j \in 1..Len(messages) :
        i # j => messages[i].id # messages[j].id

\* ---------------------------------------------------------------------- C20
\* loadChatData runs again although the route has not changed, while the
\* chat() call of a message is in flight.
ReloadsSameChat ==
    /\ itemId' = itemId
    /\ Len(loads') > Len(loads)
    /\ stream.active /\ stream'.active

\* C20: a render of App that leaves itemId unchanged while a stream is in
\* flight leaves the messages list as it is: it is neither cleared nor
\* replaced by what the store holds.
C20_RerenderKeepsMessages ==
    [][ReloadsSameChat => messages' = messages]_vars

\* ---------------------------------------------------------------------- C21
\* What a Google chat() call with onStream makes of the response body when
\* the whole body has been read: the deltas and whether it throws.
GoogleStreamed(body) == GoogleFinish(DecodeRun(<<body>>, << >>, << >>))

\* C21: a Google chat() call without onStream calls no callback and, against
\* a response body for which the call with onStream resolves, resolves to the
\* same text: the concatenation of the texts of the array elements.
C21_GoogleSameTextWithoutCallback ==
    (Done /\ provider = "google" /\ ~streaming /\ resp # NoResponse /\ resp.ok) =>
        /\ deltas = << >>
        /\ ~GoogleStreamed(resp.body).threw =>
               /\ outcome = "resolved"
               /\ result = Concat(GoogleStreamed(resp.body).emitted)

\* ---------------------------------------------------------------------- C22
\* The last request is the one of a chat() call on an Anthropic service.
AnthropicChatSent ==
    /\ op \in {"sendMessage", "chat"}
    /\ service.kind = "anthropic"
    /\ request.kind = "chat"

\* C22: the body of every Anthropic chat request has a max_tokens field; it
\* is the max_tokens of the options when they supply one (0 included) and
\* 1000 when they supply none, be it that the key is missing or that its
\* value is undefined.
C22_AnthropicMaxTokens ==
    AnthropicChatSent =>
        /\ "max_tokens" \in DOMAIN request.body
        /\ request.body.max_tokens =
               IF Get(apiOptions, "max_tokens") = Undefined THEN "1000"
               ELSE apiOptions.max_tokens

\* ---------------------------------------------------------------------- C23
\* An array element that carries a text / the empty text.
HasText(e) == e.t = "object" /\ e.shape = "google" /\ e.text # << >>
HasEmptyText(e) == e.t = "object" /\ e.shape = "google" /\ e.text = << >>

\* C23 as claimed: the buffered strategy applies no empty-text filter: every
\* array element whose text is the empty string causes an onDelta call with
\* the empty string.
C23_EmptyTextForwarded ==
    (GoogleDone /\ IsArrayText(buffer) /\ outcome = "resolved") =>
        Count(deltas, LAMBDA d : d = << >>)
          = Count(JSONParse(Trim(buffer)).v.elems, HasEmptyText)

\* C23 as amended: the buffered strategy filters empty texts: onDelta is
\* never called with the empty string, and a call that resolves has called
\* it once per array element with a text that is not empty, an element with
\* the empty text being passed over like one without a text.
C23_GoogleSkipsEmptyText ==
    /\ provider = "google" => \A i \in 1..Len(deltas) : deltas[i] # << >>
    /\ (GoogleDone /\ IsArrayText(buffer) /\ outcome = "resolved") =>
           Len(deltas) = Count(JSONParse(Trim(buffer)).v.elems, HasText)

\* A Google call has resolved on an array whose first element has the empty
\* text and whose second element has a text: one delta.
C23_Witness ==
    /\ GoogleDone /\ outcome = "resolved"
    /\ resp.body = ArrayBody(<<GoogleElement(<< >>), GoogleElement(<<"a">>)>>)
    /\ deltas = << <<"a">> >>
    /\ result = <<"a">>

\* ---------------------------------------------------------------------- C24
\* A chat() call builds its request body.
BuildsBody == wire'.n = wire.n + 1

\* C24: a chat() call on any provider leaves the caller's message sequence
\* as it was; for Google the contents list of the body has the length and
\* the order of that sequence, each entry with the role model when the
\* message has the role assistant and the role user otherwise, and with the
\* content of the message as the text of its only part.
C24_MessagesUntouched ==
    [][BuildsBody =>
         /\ conversation' = conversation
         /\ wire'.provider = "google" =>
                /\ wire'.key = "contents"
                /\ Len(wire'.list) = Len(conversation)
                /\ \A i \in 1..Len(conversation) :
                       /\ wire'.list[i].role = "model" <=> conversation[i].role = "assistant"
                       /\ wire'.list[i].role = "user" <=> conversation[i].role # "assistant"
                       /\ wire'.list[i].parts = <<[text |-> conversation[i].content]>>]_vars

\* A Google call has built its body from an assistant message followed by a
\* system message; the caller's sequence is what it was.
C24_Witness ==
    /\ wire.provider = "google"
    /\ conversation = <<[role |-> "assistant", content |-> "hi"],
                        [role |-> "system", content |-> "yo"]>>
    /\ wire.list = <<[role |-> "model", parts |-> <<[text |-> "hi"]>>],
                     [role |-> "user", parts |-> <<[text |-> "yo"]>>]>>

\* ---------------------------------------------------------------------- C25
\* A run of handleSendMessage that adds the user message and the placeholder:
\* only such a run hands out message ids.
SendStep == messageIdCounter' = messageIdCounter + 2

\* The key is empty or made of white space only.
IsBlankKey(key) == \A i \in 1..Len(key) : IsSpace(key[i])

\* C25: when the API key of the selected provider is empty or white space,
\* handleSendMessage issues no chat request; the list ends with the user
\* message and the placeholder, whose content is the configuration error
\* text, and isLoading is false.
C25_NoKeyNoRequest ==
    [][(SendStep /\ IsBlankKey(apiKeyRead')) =>
          /\ stream' = stream
          /\ ~stream'.active
          /\ isLoading' = FALSE
          /\ Len(messages') = Len(messages) + 2
          /\ messages'[Len(messages) + 1].role = "user"
          /\ messages'[Len(messages) + 1].content = <<inputMessage>>
          /\ messages'[Len(messages) + 2].id = <<"assistant", messageIdCounter + 1>>
          /\ messages'[Len(messages) + 2].content = ConfigErrorContent]_vars

\* A message was sent with a key of white space: the list ends with the user
\* message and the placeholder showing the configuration error, nothing is
\* in flight and isLoading is false.
C25_Witness ==
    /\ apiKeyRead = <<SP, SP>>
    /\ Len(messages) = 2
    /\ messages[1].role = "user" /\ messages[1].content = <<"hi">>
    /\ messages[2].content = ConfigErrorContent
    /\ ~stream.active
    /\ ~isLoading
    /\ messageIdCounter = 2

\* ---------------------------------------------------------------------- C26
\* The chat() call MainArea waits for resolves, the route not having changed
\* since the message was sent.
ResolvesInPlace ==
    /\ stream.active /\ ~stream.switched
    /\ ~stream'.active /\ stream'.outcome = "resolved"

\* C26: when the chat() call of a message resolves and the chat was not
\* switched meanwhile, the content of the message's placeholder is the text
\* chat() resolved to: every chunk the service passed to onStream, in order.
C26_PlaceholderHoldsResult ==
    [][ResolvesInPlace =>
          \E i \in 1..Len(messages') :
              /\ messages'[i].id = stream.assistantId
              /\ messages'[i].content = stream.text]_vars

\* ---------------------------------------------------------------------- C27
\* C27: a streamed Google call that fails, whatever the reason (the request,
\* a read, the buffered body), has not called onStream.
C27_GoogleAllOrNothing ==
    (Done /\ provider = "google" /\ streaming /\ outcome = "rejected") =>
        deltas = << >>

\* ---------------------------------------------------------------------- C28
\* A chat() call is issued: a stream becomes active, or the active one is
\* replaced by that of another message.
StartsCall ==
    /\ stream'.active
    /\ ~stream.active \/ stream'.assistantId # stream.assistantId

\* The chat() call in flight resolves or fails.
CallSettles == stream.active /\ ~stream'.active

\* C28: at most one chat() call is in flight.  While isLoading is true or the
\* input is blank no run of handleSendMessage adds messages, creates a chat
\* or issues a call; a call in flight keeps isLoading true; and the step at
\* which the call resolves or fails sets isLoading to false.
C28_OneCallInFlight ==
    [][/\ stream.active => isLoading
       /\ stream'.active => isLoading'
       /\ (isLoading \/ IsBlankInput(inputMessage)) =>
              /\ ~SendStep
              /\ ~StartsCall
              /\ historyItems' = historyItems
       /\ CallSettles => isLoading' = FALSE]_vars

\* A call is in flight and has delivered a chunk, the user has typed the next
\* message and there is room for it in the list: only isLoading keeps
\* handleSendMessage from sending it.
C28_Witness ==
    /\ stream.active /\ stream.count = 1
    /\ isLoading
    /\ inputMessage = "hi"
    /\ Len(messages) = 2
    /\ messageIdCounter + 2 <= MaxIds
    /\ Len(messages) + 2 <= MaxMessages

====
